---------------------------- MODULE Spec2Model ----------------------------
(***************************************************************************)
(* A model of pyper: the Union--Find forest (pyper/utilities.py), the      *)
(* persistence calculation for graphs (persistent_homology/graphs.py),     *)
(* the persistence calculation for 1D functions                            *)
(* (persistent_homology/functions.py) and Betti curves                     *)
(* (representations/betti_curve.py).                                       *)
(*                                                                         *)
(* Python lists and numpy arrays are functions on 0..n-1, so that every    *)
(* index of the model is the index of the source.  Lists that are only     *)
(* appended to and iterated (diagrams, pair lists) are sequences.          *)
(* Filtration values are integers: only their order, their equality and    *)
(* their negation are used by graphs.py and functions.py.  For Betti       *)
(* curves the integers stand for the representable numbers in their        *)
(* order, so that the number just below x is x - 1.                        *)
(***************************************************************************)
EXTENDS Integers, Sequences, FiniteSets, TLC

VARIABLES
    \* ---- a UnionFind object driven by arbitrary calls (SpecUF)
    parent,                  \* UnionFind._parent
    uf_call,                 \* the last call on it: its name, arguments,
                             \* result and the _parent it started from
    \* ---- one call of calculate_persistence_diagrams (SpecGraph)
    graph,                   \* the input graph: vertex count, vertex weights,
                             \* edge tuples, edge weights
    g_order,                 \* the order argument
    g_pc,                    \* where the call is: "loop", "done", "error"
    g_pos,                   \* how many entries of edge_indices are consumed
    g_uf,                    \* uf._parent of the call's UnionFind
    persistence_diagram_0,   \* the 0-dimensional diagram
    edge_indices_cycles,     \* the edges that closed a cycle
    persistence_diagram_1,   \* the 1-dimensional diagram
    g_step,                  \* what the last loop iteration did
    \* ---- one call of calculate_persistence_diagrams_1d (SpecFunction)
    function,                \* the input series
    f_order,                 \* the order argument
    f_pc,                    \* where the call is: "loop", "done"
    f_pos,                   \* how many entries of indices are consumed
    f_uf,                    \* uf._parent of the call's UnionFind
    persistence_pairs,       \* the index tuples collected so far
    f_pd,                    \* the returned diagram
    f_step,                  \* what the last loop iteration did
    \* ---- make_betti_curve and one evaluation of its result (SpecBetti)
    diagram,                 \* the input diagram
    b_pc,                    \* "start", "none" (None was returned),
                             \* "curve" (a BettiCurve was returned), "called"
    curve,                   \* BettiCurve._data: (threshold, n_features) rows
    b_threshold,             \* the argument of the call of the curve
    b_value,                 \* what the call returned
    \* ---- the sum or difference of two Betti curves (SpecAdd)
    other_diagram,           \* the diagram of the second curve
    other_curve,             \* its BettiCurve._data
    a_pc,                    \* "start", "curves", "added", "called"
    a_op,                    \* "add" (self + other) or "sub" (self - other)
    total,                   \* BettiCurve._data of the result
    a_values                 \* the three curves called at b_threshold

ufVars == <<parent, uf_call>>
graphVars == <<graph, g_order, g_pc, g_pos, g_uf, persistence_diagram_0,
               edge_indices_cycles, persistence_diagram_1, g_step>>
fnVars == <<function, f_order, f_pc, f_pos, f_uf, persistence_pairs, f_pd,
            f_step>>
addVars == <<other_diagram, other_curve, a_pc, a_op, total, a_values>>
bettiVars == <<diagram, b_pc, curve, b_threshold, b_value, addVars>>
vars == <<ufVars, graphVars, fnVars, bettiVars>>

-----------------------------------------------------------------------------
(* Bounds of the model. *)

\* Largest number of vertices of a free-standing UnionFind.
MaxUF == 3

\* Largest number of vertices of an enumerated graph.
MaxVertices == 2

\* Largest number of edges of an enumerated graph.
MaxEdges == 2

\* Vertex and edge weights of enumerated graphs are drawn from 0..MaxWeight.
MaxWeight == 1

\* Largest length of an enumerated series.
MaxLen == 4

\* The samples of enumerated series are drawn from -MaxValue..MaxValue.
MaxValue == 1

\* Largest number of pairs of an enumerated diagram.
MaxPairs == 2

\* Creation and destruction values of enumerated diagrams are drawn from
\* 0..MaxThreshold.
MaxThreshold == 3

-----------------------------------------------------------------------------
(* Python containers. *)

\* len() of an array.
Len0(a) == Cardinality(DOMAIN a)

\* A Python list literal as an array on 0..n-1.
Array(s) == [i \in 0..(Len(s) - 1) |-> s[i + 1]]

\* -a for a numpy array a.
Neg(a) == [i \in DOMAIN a |-> 0 - a[i]]

\* a[0] where a[-1] is meant.
first_element(a) == a[0]

\* a[-1]: the last element of a non-empty array.  On an empty array the
\* source raises IndexError; callers test for that before using Last.
Last(a) == a[Len0(a) - 1]

\* (x, y) in pairs
Contains(pairs, p) == \E i \in 1..Len(pairs) : pairs[i] = p

\* np.argsort(a, kind='stable'): position k holds the index of the k-th
\* smallest entry, equal entries in index order.
argsort(a) ==
    LET before(i) == {j \in DOMAIN a : a[j] < a[i] \/ (a[j] = a[i] /\ j < i)}
    IN  [k \in DOMAIN a |-> CHOOSE i \in DOMAIN a : Cardinality(before(i)) = k]

\* An order test that lets every value pass.
any_order(order) == TRUE

\* order in ['sublevel', 'superlevel']: the assertion both diagram
\* functions make on their order argument.
valid_order(order) == order \in {"sublevel", "superlevel"}

\* The values the model passes as order: the two filtrations and a string
\* that names neither.
Orders == {"sublevel", "superlevel", "levelset"}

-----------------------------------------------------------------------------
(* class UnionFind *)

\* UnionFind.__init__
UnionFindInit(n_vertices) == [x \in 0..(n_vertices - 1) |-> x]

\* A find that leaves the forest as it is: no path collapse.
RECURSIVE find_no_collapse(_, _)
find_no_collapse(p, u) ==
    IF p[u] = u
    THEN [parent |-> p, result |-> u]
    ELSE [parent |-> p, result |-> find_no_collapse(p, p[u]).result]

\* UnionFind.find: the root of u, and _parent after the path collapse.
RECURSIVE find(_, _)
find(p, u) ==
    IF p[u] = u
    THEN [parent |-> p, result |-> u]
    ELSE LET r == find(p, p[u])
         IN  [parent |-> [r.parent EXCEPT ![u] = r.result],
              result |-> r.result]

\* A merge written the other way round: v's root is put under u's root.
mergeReversed(p, u, v) ==
    IF u # v
    THEN LET fu == find(p, u)
             fv == find(fu.parent, v)
         IN  [fv.parent EXCEPT ![fv.result] = fu.result]
    ELSE p

\* A merge that links the two arguments themselves, not their roots.
merge_without_find(p, u, v) ==
    IF u # v THEN [p EXCEPT ![u] = v] ELSE p

\* UnionFind.merge: self._parent[self.find(u)] = self.find(v).  Python
\* evaluates the right-hand side first, then the subscript of the target.
merge(p, u, v) ==
    IF u # v
    THEN LET fv == find(p, v)
             fu == find(fv.parent, u)
         IN  [fu.parent EXCEPT ![fu.result] = fv.result]
    ELSE p

\* UnionFind.find for any integer u.  self._parent[u] raises IndexError
\* unless -n <= u < n, and reads position u + n for a negative u; such a u
\* never equals the entry read, so line 41 runs.
find_any(p, u) ==
    LET n == Len0(p)
    IN  IF u < 0 - n \/ u >= n
        THEN [raised |-> TRUE, parent |-> p, result |-> 0]
        ELSE IF u >= 0
        THEN [raised |-> FALSE, parent |-> find(p, u).parent,
              result |-> find(p, u).result]
        ELSE LET r == find(p, p[u + n])
             IN  [raised |-> FALSE,
                  parent |-> [r.parent EXCEPT ![u + n] = r.result],
                  result |-> r.result]

\* UnionFind.merge for any integers u and v: find(v) runs first and its
\* path collapse stays when find(u) then raises.
merge_any(p, u, v) ==
    IF u = v
    THEN [raised |-> FALSE, parent |-> p]
    ELSE LET fv == find_any(p, v)
             fu == find_any(fv.parent, u)
         IN  IF fv.raised
             THEN [raised |-> TRUE, parent |-> p]
             ELSE IF fu.raised
             THEN [raised |-> TRUE, parent |-> fv.parent]
             ELSE [raised |-> FALSE,
                   parent |-> [fu.parent EXCEPT ![fu.result] = fv.result]]

\* A roots that yields every vertex.
every_vertex(p) == DOMAIN p

\* UnionFind.roots: the vertices that are their own parents.
roots(p) == {vertex \in DOMAIN p : p[vertex] = vertex}

\* The order in which the generator yields them: ascending.
RECURSIVE SetToSortedSeq(_)
SetToSortedSeq(S) ==
    IF S = {} THEN <<>>
    ELSE LET m == CHOOSE x \in S : \A y \in S : x <= y
         IN  <<m>> \o SetToSortedSeq(S \ {m})

\* The root that following _parent links from u reaches, without changing
\* anything (used to state properties, not by the program).
RECURSIVE Root(_, _)
Root(p, u) == IF p[u] = u THEN u ELSE Root(p, p[u])

\* The vertices of u's component.
Component(p, u) == {w \in DOMAIN p : Root(p, w) = Root(p, u)}

-----------------------------------------------------------------------------
(* Each specification drives one part of the library; the variables of    *)
(* the other parts keep these values.                                      *)

NoGraph == [n |-> 0, vw |-> <<>>, edges |-> <<>>, ew |-> <<>>]
NoStep == [kind |-> "none", edge |-> 0, younger |-> 0, older |-> 0,
           pre |-> <<>>]

GraphIdle ==
    /\ graph = NoGraph
    /\ g_order = "sublevel"
    /\ g_pc = "idle"
    /\ g_pos = 0
    /\ g_uf = <<>>
    /\ persistence_diagram_0 = <<>>
    /\ edge_indices_cycles = <<>>
    /\ persistence_diagram_1 = <<>>
    /\ g_step = NoStep

UFIdle ==
    /\ parent = <<>>
    /\ uf_call = [op |-> "idle", u |-> 0, v |-> 0, result |-> 0, pre |-> <<>>,
                  raised |-> FALSE]

NoSample == [case |-> "none", index |-> 0, pre |-> <<>>]

FunctionIdle ==
    /\ function = <<>>
    /\ f_order = "sublevel"
    /\ f_pc = "idle"
    /\ f_pos = 0
    /\ f_uf = <<>>
    /\ persistence_pairs = <<>>
    /\ f_pd = <<>>
    /\ f_step = NoSample

NoValue == [scalar |-> FALSE, twice |-> 0]

NoValues == [self |-> NoValue, other |-> NoValue, total |-> NoValue]

AddIdle ==
    /\ other_diagram = <<>>
    /\ other_curve = <<>>
    /\ a_pc = "idle"
    /\ a_op = "none"
    /\ total = <<>>
    /\ a_values = NoValues

BettiIdle ==
    /\ diagram = <<>>
    /\ b_pc = "idle"
    /\ curve = <<>>
    /\ b_threshold = 0
    /\ b_value = NoValue
    /\ AddIdle

-----------------------------------------------------------------------------
(* SpecUF: a UnionFind object and arbitrary in-range calls on it. *)

InitUF ==
    /\ \E n_vertices \in 1..MaxUF : parent = UnionFindInit(n_vertices)
    /\ uf_call = [op |-> "init", u |-> 0, v |-> 0, result |-> 0,
                  pre |-> <<>>, raised |-> FALSE]
    /\ GraphIdle
    /\ FunctionIdle
    /\ BettiIdle

\* A call uf.find(u).
Find(u) ==
    /\ LET r == find(parent, u)
       IN  /\ parent' = r.parent
           /\ uf_call' = [op |-> "find", u |-> u, v |-> u,
                          result |-> r.result, pre |-> parent,
                          raised |-> FALSE]
    /\ UNCHANGED <<graphVars, fnVars, bettiVars>>

\* A call uf.merge(u, v).
Merge(u, v) ==
    /\ parent' = merge(parent, u, v)
    /\ uf_call' = [op |-> "merge", u |-> u, v |-> v, result |-> 0,
                   pre |-> parent, raised |-> FALSE]
    /\ UNCHANGED <<graphVars, fnVars, bettiVars>>

\* The integers the model passes as indices: from one below -n to n.
Indices == (0 - Len0(parent) - 1)..Len0(parent)

\* A call uf.find(u) with u outside 0..n-1.
FindOutside(u) ==
    /\ u \notin DOMAIN parent
    /\ LET r == find_any(parent, u)
       IN  /\ parent' = r.parent
           /\ uf_call' = [op |-> "find_outside", u |-> u, v |-> u,
                          result |-> r.result, pre |-> parent,
                          raised |-> r.raised]
    /\ UNCHANGED <<graphVars, fnVars, bettiVars>>

\* A call uf.merge(u, v) with u or v outside 0..n-1.
MergeOutside(u, v) ==
    /\ u \notin DOMAIN parent \/ v \notin DOMAIN parent
    /\ LET r == merge_any(parent, u, v)
       IN  /\ parent' = r.parent
           /\ uf_call' = [op |-> "merge_outside", u |-> u, v |-> v,
                          result |-> 0, pre |-> parent,
                          raised |-> r.raised]
    /\ UNCHANGED <<graphVars, fnVars, bettiVars>>

NextUF ==
    \/ \E u \in DOMAIN parent : Find(u)
    \/ \E u \in DOMAIN parent : \E v \in DOMAIN parent : Merge(u, v)
    \/ \E u \in Indices : FindOutside(u)
    \/ \E u \in Indices : \E v \in Indices : MergeOutside(u, v)

SpecUF == InitUF /\ [][NextUF]_vars

-----------------------------------------------------------------------------
(* C9 *)

\* C9: whenever merge(u, v) is called with u and v in different components,
\* the root v had before the call is afterwards the root of both u and v,
\* whatever the sizes of the two components; the call with the arguments
\* exchanged would instead have left u's old root as the root of both.
C9_MergeTargetSurvives ==
    (uf_call.op = "merge"
     /\ Root(uf_call.pre, uf_call.u) # Root(uf_call.pre, uf_call.v))
    => LET old_v == Root(uf_call.pre, uf_call.v)
           old_u == Root(uf_call.pre, uf_call.u)
           other == merge(uf_call.pre, uf_call.v, uf_call.u)
       IN  /\ find(parent, uf_call.u).result = old_v
           /\ find(parent, uf_call.v).result = old_v
           /\ parent[old_v] = old_v
           /\ Component(parent, uf_call.v)
                = Component(uf_call.pre, uf_call.u)
                    \cup Component(uf_call.pre, uf_call.v)
           /\ find(other, uf_call.u).result = old_u
           /\ find(other, uf_call.v).result = old_u

\* A merge of a larger component into a strictly smaller one has happened.
C9_Witness ==
    /\ uf_call.op = "merge"
    /\ Root(uf_call.pre, uf_call.u) # Root(uf_call.pre, uf_call.v)
    /\ Cardinality(Component(uf_call.pre, uf_call.u))
         > Cardinality(Component(uf_call.pre, uf_call.v))
    /\ Root(parent, uf_call.u) = Root(uf_call.pre, uf_call.v)

-----------------------------------------------------------------------------
(* C17, C19 *)

\* C17: find and merge called with an index outside 0..n-1, negative ones
\* included, raise an error and leave _parent as it was.
C17_OutsideIndexRaises ==
    uf_call.op \in {"find_outside", "merge_outside"}
    => /\ uf_call.raised
       /\ parent = uf_call.pre

\* The nodes find(u) visits: u and everything on the way to its root.
RECURSIVE PathFrom(_, _)
PathFrom(p, u) == IF p[u] = u THEN {u} ELSE {u} \cup PathFrom(p, p[u])

\* C19: find(u) returns the root r that the parent links lead to from u;
\* afterwards every node on the way from u has r as its parent, every other
\* node has the parent it had, and the components and the roots are the
\* same as before.
C19_FindCollapsesPath ==
    uf_call.op = "find"
    => LET r == Root(uf_call.pre, uf_call.u)
           path == PathFrom(uf_call.pre, uf_call.u)
       IN  /\ uf_call.result = r
           /\ uf_call.pre[r] = r
           /\ parent[r] = r
           /\ \A w \in path : parent[w] = r
           /\ \A w \in DOMAIN parent \ path : parent[w] = uf_call.pre[w]
           /\ {Component(parent, w) : w \in DOMAIN parent}
                = {Component(uf_call.pre, w) : w \in DOMAIN parent}
           /\ {w \in DOMAIN parent : parent[w] = w}
                = {w \in DOMAIN parent : uf_call.pre[w] = w}

\* find(u) has been called on a node two links away from its root and has
\* set the node's parent to the root.
C19_Witness ==
    /\ uf_call.op = "find"
    /\ Cardinality(PathFrom(uf_call.pre, uf_call.u)) = 3
    /\ uf_call.pre[uf_call.u] # uf_call.result
    /\ parent[uf_call.u] = uf_call.result

-----------------------------------------------------------------------------
(* C25: the parent links form a forest *)

\* The vertex reached from u after k parent links.
RECURSIVE Ancestor(_, _, _)
Ancestor(p, u, k) == IF k = 0 THEN u ELSE Ancestor(p, p[u], k - 1)

\* C25: after any sequence of find and merge calls every parent is a
\* vertex, and from every vertex n - 1 parent links at most lead to a
\* vertex that is its own parent: the only cycles are the self-loops of
\* the roots, and the loop of find ends.
C25_ParentLinksAcyclic ==
    /\ \A u \in DOMAIN parent : parent[u] \in DOMAIN parent
    /\ \A u \in DOMAIN parent :
          \E k \in 0..(Len0(parent) - 1) :
             LET r == Ancestor(parent, u, k)
             IN  parent[r] = r

\* A merge has just put a root that has a child under another root: a
\* path of two links, the longest one three vertices allow.
C25_Witness ==
    /\ uf_call.op = "merge"
    /\ Len0(parent) = 3
    /\ \E u \in DOMAIN parent :
          /\ parent[u] # u
          /\ parent[parent[u]] # parent[u]
          /\ uf_call.pre[parent[u]] = parent[u]

-----------------------------------------------------------------------------
(* calculate_persistence_diagrams (persistent_homology/graphs.py) *)

\* The graph of the unit test: _make_test_graph_gfl.
GFLGraph ==
    [n |-> 5,
     vw |-> Array(<<1, 4, 3, 2, 1>>),
     edges |-> Array(<<<<0, 1>>, <<1, 2>>, <<2, 3>>, <<2, 4>>>>),
     ew |-> Array(<<4, 4, 3, 3>>)]

\* Arrays of length n over the set S.
Arrays(n, S) == [0..(n - 1) -> S]

\* The tuples igraph reports for the edges of an undirected graph without
\* loops on n vertices: the smaller vertex first.
EdgeTuples(n) == {<<u, v>> \in (0..(n - 1)) \X (0..(n - 1)) : u < v}

\* The graphs the model enumerates: up to MaxVertices vertices, up to
\* MaxEdges edges (multi-edges included), weights in 0..MaxWeight.
IsEnumeratedGraph(g) ==
    \E n \in 0..MaxVertices : \E e \in 0..MaxEdges :
        \E vw \in Arrays(n, 0..MaxWeight) :
            \E edges \in Arrays(e, EdgeTuples(n)) :
                \E ew \in Arrays(e, 0..MaxWeight) :
                    g = [n |-> n, vw |-> vw, edges |-> edges, ew |-> ew]

\* edge_indices, lines 232-242.
edge_indices(g, order) ==
    IF order = "sublevel" THEN argsort(g.ew) ELSE argsort(Neg(g.ew))

\* vertex_indices, lines 232-242.
vertex_indices(g, order) ==
    IF order = "sublevel" THEN argsort(g.vw) ELSE argsort(Neg(g.vw))

\* The test of line 277 on the two preliminary roots.
must_swap(g, order, younger, older) ==
    vertex_indices(g, order)[younger] < vertex_indices(g, order)[older]

\* Lines 281-284 with creation and destruction exchanged.
pair_of_transposed(g, younger, edge_weight) ==
    <<edge_weight, g.vw[younger]>>

\* Lines 281-284 with the destruction taken from the vertex as well.
pair_of_vertex_only(g, younger, edge_weight) ==
    <<g.vw[younger], g.vw[younger]>>

\* Lines 281-284: the pair added for a merge.
pair_of(g, younger, edge_weight) ==
    <<g.vw[younger], edge_weight>>

\* The loop body without the test of line 269: every edge is taken to join
\* two components.
loop_body_no_cycle_test(g, order, uf, edge_index) ==
    LET u0 == g.edges[edge_index][1]
        v0 == g.edges[edge_index][2]
        fy == find(uf, u0)
        fo == find(fy.parent, v0)
        swap == must_swap(g, order, fy.result, fo.result)
    IN  [kind |-> "merge", edge |-> edge_index,
         younger |-> IF swap THEN fo.result ELSE fy.result,
         older |-> IF swap THEN fy.result ELSE fo.result,
         pre |-> uf,
         uf |-> merge(fo.parent, IF swap THEN v0 ELSE u0,
                      IF swap THEN u0 ELSE v0)]

\* One iteration of the loop of lines 257-289 on edge edge_index, from
\* the forest uf: what it did, and the forest afterwards.
loop_body(g, order, uf, edge_index) ==
    LET u0 == g.edges[edge_index][1]
        v0 == g.edges[edge_index][2]
        fy == find(uf, u0)
        fo == find(fy.parent, v0)
    IN  IF fy.result = fo.result
        THEN [kind |-> "cycle", edge |-> edge_index,
              younger |-> fy.result, older |-> fo.result,
              pre |-> uf, uf |-> fo.parent]
        ELSE LET swap == must_swap(g, order, fy.result, fo.result)
                 u == IF swap THEN v0 ELSE u0
                 v == IF swap THEN u0 ELSE v0
                 younger == IF swap THEN fo.result ELSE fy.result
                 older == IF swap THEN fy.result ELSE fo.result
             IN  [kind |-> "merge", edge |-> edge_index,
                  younger |-> younger, older |-> older,
                  pre |-> uf, uf |-> merge(fo.parent, u, v)]

\* Graphs of two components, whatever the bounds: vertices 0 and 1 joined
\* by two parallel edges (the second one closes a cycle), vertex 2 alone.
IsTwoComponentGraph(g) ==
    \E vw \in Arrays(3, 0..MaxWeight) : \E ew \in Arrays(2, 0..MaxWeight) :
        g = [n |-> 3, vw |-> vw,
             edges |-> Array(<<<<0, 1>>, <<0, 1>>>>), ew |-> ew]

InitGraph ==
    /\ \/ graph = GFLGraph
       \/ IsEnumeratedGraph(graph)
       \/ IsTwoComponentGraph(graph)
    /\ g_order \in Orders
    /\ g_pc = "entry"
    /\ g_pos = 0
    /\ g_uf = UnionFindInit(graph.n)
    /\ persistence_diagram_0 = <<>>
    /\ edge_indices_cycles = <<>>
    /\ persistence_diagram_1 = <<>>
    /\ g_step = NoStep
    /\ UFIdle
    /\ FunctionIdle
    /\ BettiIdle

\* Lines 211-251: the assertion on order (line 230) and the set-up.
AssertOrder ==
    /\ g_pc = "entry"
    /\ g_pc' = IF valid_order(g_order) THEN "loop" ELSE "AssertionError"
    /\ UNCHANGED <<graph, g_order, g_pos, g_uf, persistence_diagram_0,
                   edge_indices_cycles, persistence_diagram_1, g_step>>
    /\ UNCHANGED <<ufVars, fnVars, bettiVars>>

\* One iteration of the loop of lines 257-289.
ProcessEdge ==
    /\ g_pc = "loop"
    /\ g_pos < Len0(graph.ew)
    /\ LET edge_index == edge_indices(graph, g_order)[g_pos]
           edge_weight == graph.ew[edge_index]
           r == loop_body(graph, g_order, g_uf, edge_index)
       IN  /\ g_uf' = r.uf
           /\ g_step' = [kind |-> r.kind, edge |-> r.edge,
                         younger |-> r.younger, older |-> r.older,
                         pre |-> r.pre]
           /\ IF r.kind = "cycle"
              THEN /\ edge_indices_cycles'
                        = Append(edge_indices_cycles, edge_index)
                   /\ UNCHANGED persistence_diagram_0
              ELSE /\ persistence_diagram_0'
                        = Append(persistence_diagram_0,
                                 pair_of(graph, r.younger, edge_weight))
                   /\ UNCHANGED edge_indices_cycles
    /\ g_pos' = g_pos + 1
    /\ UNCHANGED <<graph, g_order, g_pc, persistence_diagram_1>>
    /\ UNCHANGED <<ufVars, fnVars, bettiVars>>

\* Line 294 on a graph without edges: edge_indices[-1] raises IndexError.
FinishNoEdges ==
    /\ g_pc = "loop"
    /\ g_pos = Len0(graph.ew)
    /\ Len0(graph.ew) = 0
    /\ g_pc' = "error"
    /\ UNCHANGED <<graph, g_order, g_pos, g_uf, persistence_diagram_0,
                   edge_indices_cycles, persistence_diagram_1, g_step>>
    /\ UNCHANGED <<ufVars, fnVars, bettiVars>>

\* Lines 291-316: the unpaired value, one pair per root, one pair per
\* cycle edge, and the return.
Finish ==
    /\ g_pc = "loop"
    /\ g_pos = Len0(graph.ew)
    /\ Len0(graph.ew) > 0
    /\ LET unpaired_value == graph.ew[Last(edge_indices(graph, g_order))]
           rs == SetToSortedSeq(roots(g_uf))
       IN  /\ persistence_diagram_0'
                = persistence_diagram_0
                    \o [i \in 1..Len(rs) |-> <<graph.vw[rs[i]], unpaired_value>>]
           /\ persistence_diagram_1'
                = [i \in 1..Len(edge_indices_cycles) |->
                     <<graph.ew[edge_indices_cycles[i]], unpaired_value>>]
    /\ g_pc' = "done"
    /\ UNCHANGED <<graph, g_order, g_pos, g_uf, edge_indices_cycles, g_step>>
    /\ UNCHANGED <<ufVars, fnVars, bettiVars>>

NextGraph ==
    \/ AssertOrder
    \/ ProcessEdge
    \/ FinishNoEdges
    \/ Finish

SpecGraph == InitGraph /\ [][NextGraph]_vars

-----------------------------------------------------------------------------
(* C3, C7, C8, C10: calculate_persistence_diagrams *)

\* The vertices an edge path joins to vertex 0.
RECURSIVE ReachableFrom(_, _)
ReachableFrom(g, S) ==
    LET T == S \cup {w \in 0..(g.n - 1) :
                        \E i \in DOMAIN g.edges :
                            \/ (g.edges[i][1] \in S /\ g.edges[i][2] = w)
                            \/ (g.edges[i][2] \in S /\ g.edges[i][1] = w)}
    IN  IF T = S THEN S ELSE ReachableFrom(g, T)

\* n vertices, n - 1 edges, connected (hence without cycles).
IsTree(g) ==
    /\ g.n >= 1
    /\ Len0(g.edges) = g.n - 1
    /\ ReachableFrom(g, {0}) = 0..(g.n - 1)

\* The position of vertex v in the stable vertex sort order.
FiltrationRank(g, order, v) ==
    CHOOSE k \in DOMAIN g.vw : vertex_indices(g, order)[k] = v

\* C3: on the graph of the unit test, with the default sublevel order, the
\* call returns, and the 0-dimensional diagram contains (1, 4) and (2, 3).
C3_GFLGraphPairs ==
    (graph = GFLGraph /\ g_order = "sublevel")
    => /\ g_pc # "error"
       /\ g_pc = "done" => /\ Contains(persistence_diagram_0, <<1, 4>>)
                           /\ Contains(persistence_diagram_0, <<2, 3>>)

\* The call on the test graph has returned the diagram
\* (3,3), (2,3), (4,4), (1,4), (1,4).
C3_Witness ==
    /\ graph = GFLGraph
    /\ g_order = "sublevel"
    /\ g_pc = "done"
    /\ persistence_diagram_0
         = <<<<3, 3>>, <<2, 3>>, <<4, 4>>, <<1, 4>>, <<1, 4>>>>

\* C7: for every tree, every weight assignment and either order the call
\* returns a 0-dimensional diagram of exactly n pairs and an empty
\* 1-dimensional diagram.
C7_TreeDiagramSizes ==
    IsTree(graph)
    => /\ g_pc # "error"
       /\ g_pc = "done" => /\ Len(persistence_diagram_0) = graph.n
                           /\ persistence_diagram_1 = <<>>

\* C8: on a graph with k >= 1 vertices and no edges the call does not fail
\* and returns one pair (weight, weight) per vertex.
C8_NoEdgesOnePairPerVertex ==
    (graph.n >= 1 /\ Len0(graph.ew) = 0 /\ g_pc # "idle")
    => /\ g_pc # "error"
       /\ g_pc = "done"
            => persistence_diagram_0
                 = [i \in 1..graph.n |-> <<graph.vw[i - 1], graph.vw[i - 1]>>]

\* C10: whenever an edge joins two components, the root with the smaller
\* vertex filtration rank is the one the loop treats as older, and it is
\* the representative of the merged component.
C10_ElderRootSurvives ==
    g_step.kind = "merge"
    => LET a == g_step.younger
           b == g_step.older
           elder == IF FiltrationRank(graph, g_order, a)
                         < FiltrationRank(graph, g_order, b)
                    THEN a ELSE b
       IN  /\ g_step.older = elder
           /\ Root(g_uf, a) = elder
           /\ Root(g_uf, b) = elder

-----------------------------------------------------------------------------
(* C11, C12, C13: the pairs of calculate_persistence_diagrams *)

\* The root that an edge joining two components removes from the forest.
MergedAway == roots(g_step.pre) \ roots(g_uf)

\* C11 as stated: for every edge that joins two components, the pair
\* appended to the 0-dimensional diagram is (vertex weight of the older
\* root, weight of the edge), the older root being the one that survives.
C11_BirthOfOlderRoot ==
    (g_pc = "loop" /\ g_step.kind = "merge")
    => persistence_diagram_0[Len(persistence_diagram_0)]
         = <<graph.vw[g_step.older], graph.ew[g_step.edge]>>

\* C11 as amended: for every edge that joins two components, the pair
\* appended to the 0-dimensional diagram is (vertex weight of the root the
\* loop treats as younger, weight of the edge); that root is the one the
\* merge removes from the forest, and the other one stays a root.
C11_BirthOfYoungerRoot ==
    (g_pc = "loop" /\ g_step.kind = "merge")
    => /\ Len(persistence_diagram_0) >= 1
       /\ persistence_diagram_0[Len(persistence_diagram_0)]
            = <<graph.vw[g_step.younger], graph.ew[g_step.edge]>>
       /\ MergedAway = {g_step.younger}
       /\ g_step.older \in roots(g_uf)
       /\ g_step.younger # g_step.older

\* An edge has joined two roots of different vertex weights, and the pair
\* carries the weight of the root that is gone.
C11_Witness ==
    /\ g_pc = "loop"
    /\ g_step.kind = "merge"
    /\ graph.vw[g_step.younger] # graph.vw[g_step.older]
    /\ persistence_diagram_0[Len(persistence_diagram_0)][1]
         = graph.vw[g_step.younger]
    /\ g_step.younger \notin roots(g_uf)

\* The connected components of a graph, as sets of vertices.
ConnectedComponents(g) == {ReachableFrom(g, {v}) : v \in 0..(g.n - 1)}

\* The last edge weight of the filtration: the greatest one under
\* 'sublevel', the least one under 'superlevel'.
ExtremeEdgeWeight(g, order) ==
    CHOOSE w \in {g.ew[i] : i \in DOMAIN g.ew} :
        \A i \in DOMAIN g.ew :
            IF order = "sublevel" THEN w >= g.ew[i] ELSE w <= g.ew[i]

\* C12: a call on a graph with at least one edge returns a 0-dimensional
\* diagram that ends, after the pairs of the joining edges, with exactly
\* one pair per connected component of the graph: (vertex weight of the
\* one root left in that component, unpaired value), the unpaired value
\* being the greatest edge weight under 'sublevel' and the least one under
\* 'superlevel'.
C12_OnePairPerComponent ==
    g_pc = "done"
    => LET rs == SetToSortedSeq({v \in DOMAIN g_uf : g_uf[v] = v})
           joined == Len0(graph.ew) - Len(edge_indices_cycles)
       IN  /\ Len0(graph.ew) >= 1
           /\ Len(rs) = Cardinality(ConnectedComponents(graph))
           /\ \A c \in ConnectedComponents(graph) :
                  Cardinality({i \in 1..Len(rs) : rs[i] \in c}) = 1
           /\ Len(persistence_diagram_0) = joined + Len(rs)
           /\ \A i \in 1..Len(rs) :
                  persistence_diagram_0[joined + i]
                    = <<graph.vw[rs[i]],
                        ExtremeEdgeWeight(graph, g_order)>>

\* A call on a graph of two components whose two edges differ in weight
\* has returned; the diagram ends with one pair for each component.
C12_Witness ==
    /\ g_pc = "done"
    /\ Cardinality(ConnectedComponents(graph)) = 2
    /\ graph.ew[0] # graph.ew[1]
    /\ Len(persistence_diagram_0) = 3
    /\ persistence_diagram_0[3]
         = <<graph.vw[2], ExtremeEdgeWeight(graph, g_order)>>

\* The partition of the vertices that a forest stands for.
Partition(p) == {Component(p, u) : u \in DOMAIN p}

\* The endpoints of the edge of the last iteration were in one component
\* when the iteration began.
ClosedCycle ==
    /\ g_step.kind # "none"
    /\ Root(g_step.pre, graph.edges[g_step.edge][1])
         = Root(g_step.pre, graph.edges[g_step.edge][2])

\* C13: an edge whose endpoints have the same representative when it is
\* processed leaves the partition and the roots as they were, adds no pair
\* to the 0-dimensional diagram and is recorded as a cycle edge; an edge
\* that joins two components is not recorded.  Each iteration so extends
\* exactly one of the two lists, and the returned 1-dimensional diagram is
\* one pair (edge weight, unpaired value) per recorded edge, in order.
C13_CycleEdges ==
    /\ g_pc = "loop"
         => Len(persistence_diagram_0) + Len(edge_indices_cycles) = g_pos
    /\ ClosedCycle
         => /\ Partition(g_uf) = Partition(g_step.pre)
            /\ {v \in DOMAIN g_uf : g_uf[v] = v}
                 = {v \in DOMAIN g_uf : g_step.pre[v] = v}
            /\ edge_indices_cycles # <<>>
            /\ edge_indices_cycles[Len(edge_indices_cycles)] = g_step.edge
    /\ (g_step.kind # "none" /\ ~ClosedCycle)
         => \A i \in 1..Len(edge_indices_cycles) :
               edge_indices_cycles[i] # g_step.edge
    /\ \A i \in 1..Len(edge_indices_cycles) :
          \A j \in 1..Len(edge_indices_cycles) :
             edge_indices_cycles[i] = edge_indices_cycles[j] => i = j
    /\ g_pc = "done"
         => persistence_diagram_1
              = [i \in 1..Len(edge_indices_cycles) |->
                   <<graph.ew[edge_indices_cycles[i]],
                     ExtremeEdgeWeight(graph, g_order)>>]
    /\ g_pc # "done" => persistence_diagram_1 = <<>>

\* A call has returned after its last edge closed a cycle between two
\* vertices that an earlier edge had joined: one pair in the 1-dimensional
\* diagram, one pair from the joining edge and one per root in the other.
C13_Witness ==
    /\ g_pc = "done"
    /\ ClosedCycle
    /\ graph.n = 3
    /\ Len(persistence_diagram_1) = 1
    /\ persistence_diagram_1[1][1] = graph.ew[g_step.edge]
    /\ Len(persistence_diagram_0) = 3

-----------------------------------------------------------------------------
(* C27: the sizes of the two diagrams *)

\* How many pairs of the 0-dimensional diagram have creation value x.
CreatedAt(x) ==
    Cardinality({i \in 1..Len(persistence_diagram_0) :
                    persistence_diagram_0[i][1] = x})

\* C27: in a call on a graph with n vertices, e >= 1 edges and c
\* components, under either order, every vertex is at any time either
\* still a root or the creator of exactly one pair that carries its own
\* weight: for every weight x, the pairs created at x and the remaining
\* roots of weight x are together as many as the vertices of weight x.
\* The returned 0-dimensional diagram has n pairs whose creation values
\* are, as a multiset, the vertex weights, and the returned 1-dimensional
\* diagram has e - (n - c) pairs.
C27_DiagramSizes ==
    LET n == graph.n
        e == Len0(graph.ew)
        c == Cardinality(ConnectedComponents(graph))
        Weighing(x) == {v \in 0..(n - 1) : graph.vw[v] = x}
        StillRoot(x) == {v \in Weighing(x) : g_uf[v] = v}
    IN  /\ (g_pc = "loop" /\ e >= 1)
           => \A x \in 0..MaxWeight \cup {graph.vw[v] : v \in 0..(n - 1)} :
                 CreatedAt(x) + Cardinality(StillRoot(x))
                   = Cardinality(Weighing(x))
        /\ g_pc = "done"
           => /\ e >= 1
              /\ Len(persistence_diagram_0) = n
              /\ \A i \in 1..Len(persistence_diagram_0) :
                    \E v \in 0..(n - 1) :
                       persistence_diagram_0[i][1] = graph.vw[v]
              /\ \A v \in 0..(n - 1) :
                    CreatedAt(graph.vw[v])
                      = Cardinality(Weighing(graph.vw[v]))
              /\ Len(persistence_diagram_1) = e - (n - c)

\* A call on a graph of three vertices, two components and two edges has
\* returned three pairs in dimension 0 and one in dimension 1.
C27_Witness ==
    /\ g_pc = "done"
    /\ graph.n = 3
    /\ Cardinality(ConnectedComponents(graph)) = 2
    /\ \E v \in 0..2 : graph.vw[v] # graph.vw[0]
    /\ Len(persistence_diagram_0) = 3
    /\ Len(persistence_diagram_1) = 1

-----------------------------------------------------------------------------
(* calculate_persistence_diagrams_1d (persistent_homology/functions.py) *)

\* The two series of the unit test (Beketayev et al.).
BeketayevD == Array(<<3, 1, 6, 5, 8, 2, 7, 4>>)
BeketayevE == Array(<<3, 1, 8, 2, 7, 5, 6, 4>>)

\* operator.lt for 'sublevel', operator.gt for 'superlevel' (lines 39-46).
predicate(order, a, b) == IF order = "sublevel" THEN a < b ELSE a > b

\* The superlevel order taken as the ascending order read backwards.
indices_reversed(fn, order) ==
    IF order = "sublevel"
    THEN argsort(fn)
    ELSE [k \in DOMAIN fn |-> argsort(fn)[Len0(fn) - 1 - k]]

\* indices (lines 39-46).
indices(fn, order) ==
    IF order = "sublevel" THEN argsort(fn) ELSE argsort(Neg(fn))

\* Case 2 (lines 83-105) with the neighbour itself recorded instead of
\* the representative of its component.
maximum_case_no_lookup(fn, order, uf, pairs, index) ==
    LET fl == find(uf, index - 1)
        fr == find(fl.parent, index + 1)
    IN  IF predicate(order, fn[fl.result], fn[fr.result])
        THEN [pairs |-> Append(pairs, <<index + 1, index>>),
              uf |-> merge(merge(fr.parent, index, index + 1),
                           index + 1, index - 1)]
        ELSE [pairs |-> Append(pairs, <<index - 1, index>>),
              uf |-> merge(merge(fr.parent, index, index - 1),
                           index - 1, index + 1)]

\* Case 2 (lines 83-105) with the representative of the branch that
\* persists recorded instead of the one that is merged.
maximum_case_older_recorded(fn, order, uf, pairs, index) ==
    LET fl == find(uf, index - 1)
        fr == find(fl.parent, index + 1)
    IN  IF predicate(order, fn[fl.result], fn[fr.result])
        THEN [pairs |-> Append(pairs, <<fl.result, index>>),
              uf |-> merge(merge(fr.parent, index, index + 1),
                           index + 1, index - 1)]
        ELSE [pairs |-> Append(pairs, <<fr.result, index>>),
              uf |-> merge(merge(fr.parent, index, index - 1),
                           index - 1, index + 1)]

\* Case 2 (lines 83-105): both neighbours are already in the filtration.
maximum_case(fn, order, uf, pairs, index) ==
    LET fl == find(uf, index - 1)
        fr == find(fl.parent, index + 1)
    IN  IF predicate(order, fn[fl.result], fn[fr.result])
        THEN LET f2 == find(fr.parent, index + 1)
             IN  [pairs |-> Append(pairs, <<f2.result, index>>),
                  uf |-> merge(merge(f2.parent, index, index + 1),
                               index + 1, index - 1)]
        ELSE LET f2 == find(fr.parent, index - 1)
             IN  [pairs |-> Append(pairs, <<f2.result, index>>),
                  uf |-> merge(merge(f2.parent, index, index - 1),
                               index - 1, index + 1)]

\* Case 3 without the merges of incomparable (equal) neighbours.
regular_case_without_incomparable(fn, order, uf, pairs, index) ==
    LET n == Len0(fn)
        x == fn[index]
        u == IF index > 0 THEN fn[index - 1] ELSE x
        v == IF index < n - 1 THEN fn[index + 1] ELSE x
    IN  IF predicate(order, u, x)
        THEN [case |-> "regular", uf |-> merge(uf, index, index - 1),
              pairs |-> pairs]
        ELSE IF predicate(order, v, x)
        THEN [case |-> "regular", uf |-> merge(uf, index, index + 1),
              pairs |-> pairs]
        ELSE [case |-> "skip", uf |-> uf, pairs |-> pairs]

\* Case 3 (lines 107-175): the list of merges and their application.
regular_case(fn, order, uf, pairs, index) ==
    LET n == Len0(fn)
        x == fn[index]
        u == IF index > 0 THEN fn[index - 1] ELSE x
        v == IF index < n - 1 THEN fn[index + 1] ELSE x
        incomparable_l_nb == ~predicate(order, u, x) /\ ~predicate(order, x, u)
        incomparable_r_nb == ~predicate(order, v, x) /\ ~predicate(order, x, v)
        merges ==
            (IF predicate(order, u, x) THEN <<"LEFT">>
             ELSE IF predicate(order, v, x) THEN <<"RIGHT">> ELSE <<>>)
            \o (IF incomparable_l_nb THEN <<"LEFT">> ELSE <<>>)
            \o (IF incomparable_r_nb THEN <<"RIGHT">> ELSE <<>>)
        In(m) == \E i \in 1..Len(merges) : merges[i] = m
        uf1 == IF In("LEFT") /\ index # 0
               THEN IF incomparable_l_nb
                    THEN merge(uf, index - 1, index)
                    ELSE merge(uf, index, index - 1)
               ELSE uf
        uf2 == IF In("RIGHT") /\ index # n - 1
               THEN IF incomparable_r_nb
                    THEN merge(uf1, index + 1, index)
                    ELSE merge(uf1, index, index + 1)
               ELSE uf1
    IN  IF merges = <<>>
        THEN [case |-> "skip", uf |-> uf, pairs |-> pairs]
        ELSE [case |-> "regular", uf |-> uf2, pairs |-> pairs]

\* One iteration of the loop of lines 61-175 on the sample at index.
sample_body(fn, order, uf, pairs, index) ==
    LET n == Len0(fn)
        x == fn[index]
        u == IF index > 0 THEN fn[index - 1] ELSE x
        v == IF index < n - 1 THEN fn[index + 1] ELSE x
    IN  IF predicate(order, x, u) /\ predicate(order, x, v)
        THEN [case |-> "minimum", uf |-> uf, pairs |-> pairs]
        ELSE IF predicate(order, u, x) /\ predicate(order, v, x)
        THEN LET r == maximum_case(fn, order, uf, pairs, index)
             IN  [case |-> "maximum", uf |-> r.uf, pairs |-> r.pairs]
        ELSE regular_case(fn, order, uf, pairs, index)

\* Lines 177-182 without the pair for a series of exactly two samples.
closing_pair_off_by_one(fn, order, pairs) ==
    LET ind == indices(fn, order)
    IN  IF Len0(ind) > 2 /\ ~Contains(pairs, <<ind[0], Last(ind)>>)
        THEN Append(pairs, <<ind[0], Last(ind)>>)
        ELSE pairs

\* Lines 177-182: the pair of the first and the last index of the
\* filtration is added unless it is already there.
closing_pair(fn, order, pairs) ==
    LET ind == indices(fn, order)
    IN  IF Len0(ind) >= 2 /\ ~Contains(pairs, <<ind[0], Last(ind)>>)
        THEN Append(pairs, <<ind[0], Last(ind)>>)
        ELSE pairs

\* Lines 184-186 returning the index tuples themselves.
diagram_of_indices(fn, pairs) == pairs

\* Lines 184-186: the diagram of the function values of the index tuples.
diagram_of(fn, pairs) ==
    [i \in 1..Len(pairs) |-> <<fn[pairs[i][1]], fn[pairs[i][2]]>>]

\* The forest and the index tuples after the first k iterations.
RECURSIVE sweep(_, _, _)
sweep(fn, order, k) ==
    IF k = 0
    THEN [uf |-> UnionFindInit(Len0(fn)), pairs |-> <<>>]
    ELSE LET s == sweep(fn, order, k - 1)
             r == sample_body(fn, order, s.uf, s.pairs,
                              indices(fn, order)[k - 1])
         IN  [uf |-> r.uf, pairs |-> r.pairs]

\* The index tuples of a whole call.
persistence_pairs_1d(fn, order) ==
    closing_pair(fn, order, sweep(fn, order, Len0(fn)).pairs)

\* The diagram a whole call returns.
calculate_persistence_diagrams_1d(fn, order) ==
    diagram_of(fn, persistence_pairs_1d(fn, order))

\* The series the model enumerates.
IsEnumeratedSeries(fn) ==
    \E n \in 0..MaxLen : fn \in Arrays(n, (0 - MaxValue)..MaxValue)

InitFunction ==
    /\ \/ function \in {BeketayevD, BeketayevE}
       \/ IsEnumeratedSeries(function)
    /\ f_order \in Orders
    /\ f_pc = "entry"
    /\ f_pos = 0
    /\ f_uf = UnionFindInit(Len0(function))
    /\ persistence_pairs = <<>>
    /\ f_pd = <<>>
    /\ f_step = NoSample
    /\ UFIdle
    /\ GraphIdle
    /\ BettiIdle

\* Lines 37-56: the assertion on order (line 37) and the set-up.
AssertOrder1d ==
    /\ f_pc = "entry"
    /\ f_pc' = IF valid_order(f_order) THEN "loop" ELSE "AssertionError"
    /\ UNCHANGED <<function, f_order, f_pos, f_uf, persistence_pairs, f_pd,
                   f_step>>
    /\ UNCHANGED <<ufVars, graphVars, bettiVars>>

\* One iteration of the loop of lines 61-175.
ProcessSample ==
    /\ f_pc = "loop"
    /\ f_pos < Len0(function)
    /\ LET index == indices(function, f_order)[f_pos]
           r == sample_body(function, f_order, f_uf, persistence_pairs, index)
       IN  /\ f_uf' = r.uf
           /\ persistence_pairs' = r.pairs
           /\ f_step' = [case |-> r.case, index |-> index, pre |-> f_uf]
    /\ f_pos' = f_pos + 1
    /\ UNCHANGED <<function, f_order, f_pc, f_pd>>
    /\ UNCHANGED <<ufVars, graphVars, bettiVars>>

\* Lines 177-188: the closing pair, the diagram and the return.
FinishSweep ==
    /\ f_pc = "loop"
    /\ f_pos = Len0(function)
    /\ persistence_pairs' = closing_pair(function, f_order, persistence_pairs)
    /\ f_pd' = diagram_of(function, persistence_pairs')
    /\ f_pc' = "done"
    /\ UNCHANGED <<function, f_order, f_pos, f_uf, f_step>>
    /\ UNCHANGED <<ufVars, graphVars, bettiVars>>

NextFunction ==
    \/ AssertOrder1d
    \/ ProcessSample
    \/ FinishSweep

SpecFunction == InitFunction /\ [][NextFunction]_vars

-----------------------------------------------------------------------------
(* C4, C5, C6: calculate_persistence_diagrams_1d *)

Dual(order) == IF order = "sublevel" THEN "superlevel" ELSE "sublevel"

\* The smallest and the largest sample of a non-empty series.
MinValue(fn) == CHOOSE x \in {fn[i] : i \in DOMAIN fn} :
                    \A i \in DOMAIN fn : x <= fn[i]
MaxValueOf(fn) == CHOOSE x \in {fn[i] : i \in DOMAIN fn} :
                    \A i \in DOMAIN fn : x >= fn[i]

\* C4: under either order the two series of the unit test yield the same
\* diagram: the same pairs in the same order.
C4_BeketayevDiagramsEqual ==
    f_pc = "done"
    => /\ function = BeketayevD
            => f_pd = calculate_persistence_diagrams_1d(BeketayevE, f_order)
       /\ function = BeketayevE
            => f_pd = calculate_persistence_diagrams_1d(BeketayevD, f_order)

\* The call on the first series under 'superlevel' has returned
\* (6,5), (7,2), (3,1), (8,1), which is also the diagram of the second.
C4_Witness ==
    /\ f_pc = "done"
    /\ function = BeketayevD
    /\ f_order = "superlevel"
    /\ f_pd = <<<<6, 5>>, <<7, 2>>, <<3, 1>>, <<8, 1>>>>
    /\ calculate_persistence_diagrams_1d(BeketayevE, "superlevel") = f_pd

\* C5: for a series of at least two samples the returned diagram is not
\* empty and contains the pair (value of the first sample in filtration
\* order, value of the last one): (minimum, maximum) under 'sublevel' and
\* (maximum, minimum) under 'superlevel'.
C5_DiagramSpansExtrema ==
    (f_pc = "done" /\ Len0(function) >= 2)
    => LET ind == indices(function, f_order)
       IN  /\ Len(f_pd) >= 1
           /\ Contains(f_pd, <<function[ind[0]], function[Last(ind)]>>)
           /\ f_order = "sublevel"
                => Contains(f_pd, <<MinValue(function), MaxValueOf(function)>>)
           /\ f_order = "superlevel"
                => Contains(f_pd, <<MaxValueOf(function), MinValue(function)>>)

\* A call on a series of two samples has returned, and the only pair of
\* its diagram is the closing pair.
C5_Witness ==
    /\ f_pc = "done"
    /\ Len0(function) = 2
    /\ function[0] # function[1]
    /\ Len(f_pd) = 1

\* C6: a call on f under one order and a call on -f under the other order
\* collect the same index tuples, so the diagram of the second is the
\* diagram of the first with both values negated.
C6_OrderDuality ==
    f_pc = "done"
    => LET other == persistence_pairs_1d(Neg(function), Dual(f_order))
       IN  /\ persistence_pairs = other
           /\ calculate_persistence_diagrams_1d(Neg(function), Dual(f_order))
                = [i \in 1..Len(f_pd) |-> <<0 - f_pd[i][1], 0 - f_pd[i][2]>>]

\* A sublevel call on a series with equal neighbours has returned a
\* diagram with a pair from a local maximum and the closing pair.
C6_Witness ==
    /\ f_pc = "done"
    /\ f_order = "sublevel"
    /\ Len(f_pd) >= 2
    /\ \E i \in DOMAIN function :
          i + 1 \in DOMAIN function /\ function[i] = function[i + 1]
    /\ persistence_pairs = persistence_pairs_1d(Neg(function), "superlevel")

-----------------------------------------------------------------------------
(* C14, C15, C20: pairs and representatives in                            *)
(* calculate_persistence_diagrams_1d                                      *)

\* The representatives of the two neighbours when the last iteration began.
LeftRoot == Root(f_step.pre, f_step.index - 1)
RightRoot == Root(f_step.pre, f_step.index + 1)

\* The neighbouring representative that is older under the predicate: the
\* left one if its value comes strictly first, else the right one.
OlderRoot ==
    IF predicate(f_order, function[LeftRoot], function[RightRoot])
    THEN LeftRoot ELSE RightRoot

\* The other neighbouring representative.
YoungerRoot ==
    IF predicate(f_order, function[LeftRoot], function[RightRoot])
    THEN RightRoot ELSE LeftRoot

\* The last pair recorded, as the values that go into the diagram.
LastValuePair ==
    <<function[persistence_pairs[Len(persistence_pairs)][1]],
      function[persistence_pairs[Len(persistence_pairs)][2]]>>

\* C14 as stated: when a sample with value x has both neighbours in the
\* filtration, the recorded pair is (value[older_root], x).
C14_PairOfOlderRoot ==
    (f_pc = "loop" /\ f_step.case = "maximum")
    => LastValuePair = <<function[OlderRoot], function[f_step.index]>>

\* C14 as amended: when a sample with value x has both neighbours in the
\* filtration, the recorded pair is (value[younger_root], x): the index
\* tuple is (younger_root, index), where younger_root is the
\* representative of the neighbouring component that is not the older one,
\* and the older representative is the one that survives the two merges.
C14_PairOfYoungerRoot ==
    (f_pc = "loop" /\ f_step.case = "maximum")
    => /\ persistence_pairs # <<>>
       /\ persistence_pairs[Len(persistence_pairs)]
            = <<YoungerRoot, f_step.index>>
       /\ LastValuePair = <<function[YoungerRoot], function[f_step.index]>>
       /\ Root(f_uf, f_step.index) = OlderRoot
       /\ Root(f_uf, YoungerRoot) = OlderRoot
       /\ f_uf[OlderRoot] = OlderRoot

\* A sample has joined two components whose representatives differ in
\* value, one of them not the neighbour itself; the pair carries the value
\* of the representative that is gone.
C14_Witness ==
    /\ f_pc = "loop"
    /\ f_step.case = "maximum"
    /\ function[LeftRoot] # function[RightRoot]
    /\ LeftRoot # f_step.index - 1
    /\ LastValuePair[1] = function[YoungerRoot]
    /\ f_uf[YoungerRoot] # YoungerRoot

\* C15: after each iteration the representative of every component is a
\* sample of the component whose value comes first in filtration order
\* (no sample of the component has a strictly smaller value under
\* 'sublevel', a strictly greater one under 'superlevel'), and no
\* iteration makes a new representative out of a sample that was not one.
C15_RepresentativeIsEarliest ==
    f_pc \in {"loop", "done"}
    => /\ \A u \in DOMAIN f_uf : \A w \in DOMAIN f_uf :
              Root(f_uf, w) = Root(f_uf, u)
              => ~predicate(f_order, function[w], function[Root(f_uf, u)])
       /\ f_step.case # "none"
            => {v \in DOMAIN f_uf : f_uf[v] = v}
                 \subseteq {v \in DOMAIN f_uf : f_step.pre[v] = v}

\* C20: when the sample of the last iteration has the same value as its
\* left neighbour, so that both samples of the tie have been processed,
\* the representative the sample had before the left neighbour was
\* processed is the representative of both, and the left neighbour is a
\* descendant of it.
C20_HigherIndexRepresents ==
    (f_pc = "loop" /\ f_step.case # "none" /\ f_step.index >= 1
     /\ function[f_step.index - 1] = function[f_step.index])
    => LET before == sweep(function, f_order, f_pos - 2).uf
           r == Root(before, f_step.index)
       IN  /\ Root(f_uf, f_step.index) = r
           /\ Root(f_uf, f_step.index - 1) = r
           /\ f_step.index - 1 # r

-----------------------------------------------------------------------------
(* C21: plateaus *)

\* The series with a copy of sample i inserted directly after it.
InsertCopy(fn, i) ==
    [k \in 0..Len0(fn) |-> IF k <= i THEN fn[k] ELSE fn[k - 1]]

\* The set of pairs of a diagram.
PairSet(pd) == {pd[k] : k \in 1..Len(pd)}

\* C21: for every series, every position i and either order, the diagram
\* of the series with a copy of sample i inserted after it has the same
\* set of pairs as the diagram of the series itself.
C21_PlateauKeepsPairs ==
    f_pc = "done"
    => \A i \in DOMAIN function :
          PairSet(calculate_persistence_diagrams_1d(InsertCopy(function, i),
                                                    f_order))
            = PairSet(f_pd)

-----------------------------------------------------------------------------
(* C24: series whose samples are all equal *)

\* C24: on a series of n >= 1 samples that all equal c, under either
\* order, every iteration is a regular one (Case 3) and touches the forest
\* only at indices of 0..n-1: after k iterations the samples 0..k form one
\* component and each later sample is still its own root, so no merge has
\* wrapped around to the other end.  No pair is recorded in the loop, and
\* the call returns the empty diagram for n = 1 and exactly the pair (c, c)
\* for n >= 2.
C24_AllEqualSeries ==
    (/\ f_pc \in {"loop", "done"}
     /\ Len0(function) >= 1
     /\ \A i \in DOMAIN function : function[i] = function[0])
    => /\ f_step.case \in {"none", "regular"}
       /\ f_pos >= 1 => f_step.index = f_pos - 1
       /\ DOMAIN f_uf = 0..(Len0(function) - 1)
       /\ \A w \in DOMAIN f_uf :
             /\ f_uf[w] \in DOMAIN f_uf
             /\ IF w <= f_pos
                THEN Root(f_uf, w) = Root(f_uf, 0)
                ELSE f_uf[w] = w
       /\ f_pc = "loop" => persistence_pairs = <<>>
       /\ f_pc = "done"
          => f_pd = IF Len0(function) = 1
                    THEN <<>>
                    ELSE << <<function[0], function[0]>> >>

C24_Witness ==
    /\ f_pc = "done"
    /\ f_order = "superlevel"
    /\ Len0(function) = 3
    /\ \A i \in DOMAIN function : function[i] = 1
    /\ f_pd = << <<1, 1>> >>
    /\ f_step.case = "regular"

-----------------------------------------------------------------------------
(* C26: the forest after the sweep *)

\* C26: when the loop has processed all n >= 1 samples, under either
\* order, every two adjacent samples are in the same component and the
\* forest has exactly one root.
C26_OneRootAfterSweep ==
    (/\ f_pc \in {"loop", "done"}
     /\ f_pos = Len0(function)
     /\ Len0(function) >= 1)
    => /\ \A i \in DOMAIN function :
             i >= 1 => Root(f_uf, i - 1) = Root(f_uf, i)
       /\ Cardinality({w \in DOMAIN f_uf : f_uf[w] = w}) = 1

\* The sweep of a series of four samples with a plateau and an interior
\* maximum has ended with one root.
C26_Witness ==
    /\ f_pc = "done"
    /\ Len0(function) = 4
    /\ Len(persistence_pairs) >= 2
    /\ \E i \in 1..3 : function[i - 1] = function[i]
    /\ Cardinality({w \in DOMAIN f_uf : f_uf[w] = w}) = 1
    /\ \E w \in DOMAIN f_uf : f_uf[w] # w

-----------------------------------------------------------------------------
(* SpecOrder: a call of either diagram function.  C18 *)

InitOrder == InitGraph \/ InitFunction

NextOrder == NextGraph \/ NextFunction

SpecOrder == InitOrder /\ [][NextOrder]_vars

\* C18: a call of calculate_persistence_diagrams or of
\* calculate_persistence_diagrams_1d with an order that is neither
\* 'sublevel' nor 'superlevel' ends in the assertion error: no edge and no
\* sample is processed, the forest is untouched and nothing is returned.
C18_InvalidOrderRejected ==
    /\ (g_pc # "idle" /\ g_order \notin {"sublevel", "superlevel"})
         => /\ g_pc \in {"entry", "AssertionError"}
            /\ g_pos = 0
            /\ g_step = NoStep
            /\ g_uf = UnionFindInit(graph.n)
            /\ persistence_diagram_0 = <<>>
            /\ edge_indices_cycles = <<>>
            /\ persistence_diagram_1 = <<>>
    /\ (f_pc # "idle" /\ f_order \notin {"sublevel", "superlevel"})
         => /\ f_pc \in {"entry", "AssertionError"}
            /\ f_pos = 0
            /\ f_step = NoSample
            /\ f_uf = UnionFindInit(Len0(function))
            /\ persistence_pairs = <<>>
            /\ f_pd = <<>>

\* A call on the graph of the unit test with the order 'levelset' has
\* failed its assertion.
C18_Witness ==
    /\ graph = GFLGraph
    /\ g_order = "levelset"
    /\ g_pc = "AssertionError"
    /\ persistence_diagram_0 = <<>>

-----------------------------------------------------------------------------
(* make_betti_curve and BettiCurve (representations/betti_curve.py) *)

\* The diagram of the unit test, its values 4 representable numbers apart:
\* the thresholds 1.5, 1.75 and 7.25 of the test are the numbers 6, 7, 29.
Spread(pairs) == [i \in 1..Len(pairs) |-> <<4 * pairs[i][1], 4 * pairs[i][2]>>]
simple_diagram ==
    Spread(<<<<0, 1>>, <<0, 6>>, <<1, 2>>, <<2, 3>>, <<3, 6>>, <<5, 8>>>>)

\* nextafter always stepping upwards.
nextafter_up(x, toward) == x + 1

\* np.nextafter(x, toward): the representable number next to x in the
\* direction of toward.
nextafter(x, toward) ==
    IF toward < x THEN x - 1 ELSE IF toward > x THEN x + 1 ELSE x

\* Lines 29-35: event_points, sorted by threshold (sorted() is stable).
event_points(dgm) ==
    LET raw == [k \in 0..(2 * Len(dgm) - 1) |->
                  IF k % 2 = 0 THEN <<dgm[(k \div 2) + 1][1], TRUE>>
                  ELSE <<dgm[(k \div 2) + 1][2], FALSE>>]
        order == argsort([k \in DOMAIN raw |-> raw[k][1]])
    IN  [k \in DOMAIN raw |-> raw[order[k]]]

\* Lines 36-51: the raw sequence, one (threshold, n_active) per event.
raw_output(dgm) ==
    LET ev == event_points(dgm)
    IN  [k \in DOMAIN ev |->
           <<ev[k][1],
             Cardinality({j \in 0..k : ev[j][2]})
               - Cardinality({j \in 0..k : ~ev[j][2]})>>]

\* process_event_points without the fake transition point.
process_event_points_no_fake(st, p, n_active) ==
    IF st.prev_p = p
    THEN [st EXCEPT !.prev_v = n_active]
    ELSE [prev_p |-> p, prev_v |-> n_active,
          output_ |-> Append(st.output_, <<st.prev_p, st.prev_v>>)]

\* process_event_points (lines 67-101) on the closure's state st:
\* prev_p, prev_v and output_.
process_event_points(st, p, n_active) ==
    IF st.prev_p = p
    THEN [st EXCEPT !.prev_v = n_active]
    ELSE LET with_fake ==
                 IF st.output_ # <<>>
                 THEN Append(st.output_,
                             <<nextafter(st.prev_p, st.prev_p - 1),
                               st.output_[Len(st.output_)][2]>>)
                 ELSE st.output_
         IN  [prev_p |-> p, prev_v |-> n_active,
              output_ |-> Append(with_fake, <<st.prev_p, st.prev_v>>)]

\* Lines 58-104: the closure's state after the first k entries of the raw
\* sequence output.
RECURSIVE processed(_, _)
processed(output, k) ==
    IF k = 0
    THEN [prev_p |-> output[0][1], prev_v |-> 0, output_ |-> <<>>]
    ELSE process_event_points(processed(output, k - 1),
                              output[k - 1][1], output[k - 1][2])

\* make_betti_curve for a diagram with at least one pair: the rows handed
\* to BettiCurve (lines 58-117).
make_betti_curve(dgm) ==
    LET output == raw_output(dgm)
        st == processed(output, Len0(output))
    IN  IF Len(st.output_) > 0 /\ st.prev_p # st.output_[Len(st.output_)][1]
        THEN process_event_points(st, st.prev_p + 1, st.prev_v + 1).output_
        ELSE st.output_

\* make_betti_curve without lines 53-56: a BettiCurve without rows is
\* made of an empty diagram.
make_betti_curve_or_empty_curve(dgm) ==
    [none |-> FALSE,
     data |-> IF dgm = <<>> THEN <<>> ELSE make_betti_curve(dgm)]

\* make_betti_curve (lines 10-117): None for a diagram without event
\* points (lines 53-56), else a BettiCurve of the rows.
make_betti_curve_or_none(dgm) ==
    IF Len0(event_points(dgm)) = 0
    THEN [none |-> TRUE, data |-> <<>>]
    ELSE [none |-> FALSE, data |-> make_betti_curve(dgm)]

\* self._data[label]: the value of the row with that threshold; with
\* several such rows pandas returns a Series instead of a number.
at(data, label) ==
    LET rows == {i \in 1..Len(data) : data[i][1] = label}
    IN  IF Cardinality(rows) = 1
        THEN [scalar |-> TRUE, value |-> data[CHOOSE i \in rows : TRUE][2]]
        ELSE [scalar |-> FALSE, value |-> 0]

\* BettiCurve.__call__ (lines 160-198).  The result is a number unless
\* scalar is FALSE; twice is two times that number, so that the mean of
\* two counts stays an integer.
call(data, threshold) ==
    LET match == {i \in 1..Len(data) : data[i][1] = threshold}
        lower == {i \in 1..Len(data) : data[i][1] < threshold}
        upper == {i \in 1..Len(data) : data[i][1] > threshold}
    IN  IF match # {}
        THEN [scalar |-> TRUE,
              twice |-> 2 * data[CHOOSE i \in match :
                                   \A j \in match : i <= j][2]]
        ELSE IF lower # {} /\ upper # {}
        THEN LET lo == data[CHOOSE i \in lower : \A j \in lower : i >= j][1]
                 up == data[CHOOSE i \in upper : \A j \in upper : i <= j][1]
             IN  IF at(data, lo).scalar /\ at(data, up).scalar
                 THEN [scalar |-> TRUE,
                       twice |-> at(data, lo).value + at(data, up).value]
                 ELSE [scalar |-> FALSE, twice |-> 0]
        ELSE [scalar |-> TRUE, twice |-> 0]

\* The creation and destruction values of a diagram.
Values(dgm) == {dgm[i][1] : i \in 1..Len(dgm)} \cup {dgm[i][2] : i \in 1..Len(dgm)}
Least(S) == CHOOSE x \in S : \A y \in S : x <= y
Greatest(S) == CHOOSE x \in S : \A y \in S : x >= y

\* The thresholds at which the model calls a curve: every representable
\* number from two below the least value to two above the greatest.
Thresholds(dgm) ==
    IF dgm = <<>> THEN {0}
    ELSE (Least(Values(dgm)) - 2)..(Greatest(Values(dgm)) + 2)

\* The diagrams the model enumerates; creation <= destruction is not
\* enforced by PersistenceDiagram.
IsEnumeratedDiagram(dgm) ==
    \E k \in 0..MaxPairs :
        dgm \in [1..k -> (0..MaxThreshold) \X (0..MaxThreshold)]

InitBetti ==
    /\ \/ diagram = simple_diagram
       \/ IsEnumeratedDiagram(diagram)
    /\ b_pc = "start"
    /\ curve = <<>>
    /\ b_threshold = 0
    /\ b_value = NoValue
    /\ AddIdle
    /\ UFIdle
    /\ GraphIdle
    /\ FunctionIdle

\* make_betti_curve on an empty diagram: lines 53-56 return None.
MakeBettiCurveEmpty ==
    /\ b_pc = "start"
    /\ make_betti_curve_or_none(diagram).none
    /\ b_pc' = "none"
    /\ UNCHANGED <<diagram, curve, b_threshold, b_value, addVars>>
    /\ UNCHANGED <<ufVars, graphVars, fnVars>>

\* make_betti_curve on a diagram with at least one pair.
MakeBettiCurve ==
    /\ b_pc = "start"
    /\ ~make_betti_curve_or_none(diagram).none
    /\ curve' = make_betti_curve_or_none(diagram).data
    /\ b_pc' = "curve"
    /\ UNCHANGED <<diagram, b_threshold, b_value, addVars>>
    /\ UNCHANGED <<ufVars, graphVars, fnVars>>

\* betti_curve(threshold)
Call(threshold) ==
    /\ b_pc = "curve"
    /\ b_threshold' = threshold
    /\ b_value' = call(curve, threshold)
    /\ b_pc' = "called"
    /\ UNCHANGED <<diagram, curve, addVars>>
    /\ UNCHANGED <<ufVars, graphVars, fnVars>>

NextBetti ==
    \/ MakeBettiCurveEmpty
    \/ MakeBettiCurve
    \/ \E threshold \in Thresholds(diagram) : Call(threshold)

SpecBetti == InitBetti /\ [][NextBetti]_vars

-----------------------------------------------------------------------------
(* C1, C2: Betti curves *)

\* The number of pairs (b, d) of the diagram with b <= t < d.
ActiveAt(dgm, t) ==
    Cardinality({i \in 1..Len(dgm) : dgm[i][1] <= t /\ t < dgm[i][2]})

BirthBeforeDeath(dgm) == \A i \in 1..Len(dgm) : dgm[i][1] <= dgm[i][2]

Births(dgm) == {dgm[i][1] : i \in 1..Len(dgm)}
Deaths(dgm) == {dgm[i][2] : i \in 1..Len(dgm)}

C2_ZeroOutsideBirthsAndDeaths ==
    (b_pc = "called"
     /\ (b_threshold < Least(Births(diagram))
         \/ b_threshold > Greatest(Deaths(diagram))))
    => b_value = [scalar |-> TRUE, twice |-> 0]

\* C2 as amended: for any non-empty diagram the curve is 0 at every
\* threshold below the least and above the greatest of all creation and
\* destruction values (the minimum birth and the maximum death when
\* every pair has birth <= death).
C2_ZeroOutsideAllValues ==
    (b_pc = "called"
     /\ (b_threshold < Least(Values(diagram))
         \/ b_threshold > Greatest(Values(diagram))))
    => b_value = [scalar |-> TRUE, twice |-> 0]

\* A curve with a non-zero count has been called just above its greatest
\* value and has returned 0.
C2_Witness ==
    /\ b_pc = "called"
    /\ b_threshold = Greatest(Values(diagram)) + 1
    /\ \E i \in 1..Len(curve) : curve[i][2] # 0
    /\ b_value = [scalar |-> TRUE, twice |-> 0]

-----------------------------------------------------------------------------
(* C16: the empty diagram *)

\* C16: for the empty diagram make_betti_curve raises nothing and returns
\* None: no BettiCurve is constructed, so there are no rows and nothing to
\* call.
C16_EmptyDiagramGivesNone ==
    (diagram = <<>> /\ b_pc # "idle")
    => /\ b_pc \in {"start", "none"}
       /\ curve = <<>>
       /\ b_value = NoValue

\* make_betti_curve has returned None for the empty diagram.
C16_Witness ==
    /\ diagram = <<>>
    /\ b_pc = "none"
    /\ curve = <<>>

-----------------------------------------------------------------------------
(* C22, C23: the rows of a curve *)

\* The distinct creation and destruction values in ascending order.
DistinctValues(dgm) == SetToSortedSeq(Values(dgm))

\* Creations minus destructions among the events up to and including t.
NetCount(dgm, t) ==
    Cardinality({i \in 1..Len(dgm) : dgm[i][1] <= t})
      - Cardinality({i \in 1..Len(dgm) : dgm[i][2] <= t})

\* C22: the curve of a non-empty diagram has, apart from the synthetic
\* rows (one before each row but the first), exactly one row for each
\* distinct value, in ascending order, with the net count after all the
\* events at that value.
C22_OneRowPerDistinctValue ==
    b_pc \in {"curve", "called"}
    => LET vals == DistinctValues(diagram)
       IN  /\ Len(curve) = 2 * Len(vals) - 1
           /\ \A k \in 1..Len(vals) :
                  curve[2 * k - 1] = <<vals[k], NetCount(diagram, vals[k])>>

\* C23: in a curve with rows, the first row is the first value's own;
\* every later value's row comes directly after exactly one synthetic row
\* that lies at the value's predecessor and carries the count of the row
\* of the value before; and the thresholds of the rows increase strictly.
C23_SyntheticPredecessors ==
    (b_pc \in {"curve", "called"} /\ curve # <<>>)
    => LET vals == DistinctValues(diagram)
       IN  /\ Len(curve) = 2 * Len(vals) - 1
           /\ curve[1][1] = vals[1]
           /\ \A k \in 2..Len(vals) :
                  /\ curve[2 * k - 1][1] = vals[k]
                  /\ curve[2 * k - 2] = <<vals[k] - 1, curve[2 * k - 3][2]>>
           /\ \A i \in 1..Len(curve) : \A j \in 1..Len(curve) :
                  i < j => curve[i][1] < curve[j][1]

-----------------------------------------------------------------------------
(* SpecAdd: BettiCurve.__add__, __neg__ and __sub__ on two curves that    *)
(* make_betti_curve built, and calls of the two curves and of the result  *)
(* at one threshold.                                                       *)

\* Series.reindex(new_index, method='ffill').fillna(0) (lines 233-234):
\* every label gets the value of the last row at or before it, and 0 when
\* there is none.  The labels of data are distinct and ascending.
reindex_ffill(data, new_index) ==
    [k \in 1..Len(new_index) |->
        LET rows == {i \in 1..Len(data) : data[i][1] <= new_index[k]}
        IN  <<new_index[k],
              IF rows = {} THEN 0 ELSE data[Greatest(rows)][2]>>]

\* BettiCurve.__add__ (lines 229-236) for a curve as other.
add(self, other) ==
    LET new_index ==
            SetToSortedSeq({self[i][1] : i \in 1..Len(self)}
                             \cup {other[i][1] : i \in 1..Len(other)})
        left == reindex_ffill(self, new_index)
        right == reindex_ffill(other, new_index)
    IN  [k \in 1..Len(new_index) |->
            <<new_index[k], left[k][2] + right[k][2]>>]

\* BettiCurve.__neg__ (line 255).
neg(self) == [i \in 1..Len(self) |-> <<self[i][1], 0 - self[i][2]>>]

\* BettiCurve.__sub__ (line 259).
sub(self, other) == add(self, neg(other))

\* The diagrams of the curves that are added: up to k pairs with
\* creation <= destruction and at least two distinct values (so the curve
\* has rows), all values even, so that the number before a value is never
\* another value and the labels of each curve are distinct.
IsSpacedDiagram(dgm, k) ==
    /\ \E m \in 1..k :
          dgm \in [1..m -> {<<2 * b, 2 * e>> : b, e \in 0..MaxThreshold}]
    /\ \A i \in 1..Len(dgm) : dgm[i][1] <= dgm[i][2]
    /\ Cardinality(Values(dgm)) >= 2

InitAdd ==
    /\ IsSpacedDiagram(diagram, MaxPairs)
    /\ IsSpacedDiagram(other_diagram, 1)
    /\ curve = <<>>
    /\ other_curve = <<>>
    /\ a_pc = "start"
    /\ a_op = "none"
    /\ total = <<>>
    /\ a_values = NoValues
    /\ b_pc = "idle"
    /\ b_threshold = 0
    /\ b_value = NoValue
    /\ UFIdle
    /\ GraphIdle
    /\ FunctionIdle

\* The two calls of make_betti_curve.
MakeCurves ==
    /\ a_pc = "start"
    /\ curve' = make_betti_curve(diagram)
    /\ other_curve' = make_betti_curve(other_diagram)
    /\ a_pc' = "curves"
    /\ UNCHANGED <<diagram, other_diagram, a_op, total, a_values, b_pc,
                   b_threshold, b_value>>
    /\ UNCHANGED <<ufVars, graphVars, fnVars>>

\* curve + other_curve
Add ==
    /\ a_pc = "curves"
    /\ total' = add(curve, other_curve)
    /\ a_op' = "add"
    /\ a_pc' = "added"
    /\ UNCHANGED <<diagram, other_diagram, curve, other_curve, a_values,
                   b_pc, b_threshold, b_value>>
    /\ UNCHANGED <<ufVars, graphVars, fnVars>>

\* curve - other_curve
Sub ==
    /\ a_pc = "curves"
    /\ total' = sub(curve, other_curve)
    /\ a_op' = "sub"
    /\ a_pc' = "added"
    /\ UNCHANGED <<diagram, other_diagram, curve, other_curve, a_values,
                   b_pc, b_threshold, b_value>>
    /\ UNCHANGED <<ufVars, graphVars, fnVars>>

\* The two curves and the result called at the same threshold.
CallAll(threshold) ==
    /\ a_pc = "added"
    /\ b_threshold' = threshold
    /\ a_values' = [self |-> call(curve, threshold),
                    other |-> call(other_curve, threshold),
                    total |-> call(total, threshold)]
    /\ a_pc' = "called"
    /\ UNCHANGED <<diagram, other_diagram, curve, other_curve, a_op, total,
                   b_pc, b_value>>
    /\ UNCHANGED <<ufVars, graphVars, fnVars>>

\* The thresholds of the calls: every representable number from one
\* below the least value of the two diagrams to one above the greatest.
ThresholdsOfBoth ==
    LET all == Values(diagram) \cup Values(other_diagram)
    IN  (Least(all) - 1)..(Greatest(all) + 1)

NextAdd ==
    \/ MakeCurves
    \/ Add
    \/ Sub
    \/ \E threshold \in ThresholdsOfBoth : CallAll(threshold)

SpecAdd == InitAdd /\ [][NextAdd]_vars

-----------------------------------------------------------------------------
(* C28 *)

\* C28: for two curves A and B built from diagrams with creation <=
\* destruction and every threshold t from the least to the greatest of
\* their stored thresholds, (A + B)(t) = A(t) + B(t) and
\* (A - B)(t) = A(t) - B(t).
C28_AdditionIsPointwise ==
    (/\ a_pc = "called"
     /\ b_threshold >= Least(Values(diagram) \cup Values(other_diagram))
     /\ b_threshold <= Greatest(Values(diagram) \cup Values(other_diagram)))
    => /\ a_values.self.scalar
       /\ a_values.other.scalar
       /\ a_values.total.scalar
       /\ a_values.total.twice
            = IF a_op = "add"
              THEN a_values.self.twice + a_values.other.twice
              ELSE a_values.self.twice - a_values.other.twice

=============================================================================
